---- MODULE Spec2Model ----
(***************************************************************************)
(* A model of matched_images_labels.py: filter_annotated_data and the      *)
(* __main__ block that calls it.                                           *)
(*                                                                         *)
(* File names are sequences of tokens: the characters of the stem, the     *)
(* dot, and the extension as one token ("txt", "TXT", "jpg", "json").      *)
(* A file is a record of its content and its permission mode: "rw", "ro"   *)
(* (readable, not writable) or "none" (not readable).  shutil.copy2 reads  *)
(* the source, writes the destination and copies the permission bits, so   *)
(* it raises when the source is unreadable or when the destination exists  *)
(* and is not writable, and it leaves the destination untouched then.      *)
(***************************************************************************)
EXTENDS Integers, Sequences, FiniteSets, TLC

\* ------------------------------------------------------------ bounds
\* The most entries the source labels directory holds.
MaxLabelEntries == 2
\* The most runs of the program in one behaviour.
MaxRuns == 2
\* The longest label stem of the name-derivation specification.
MaxStemLen == 4

\* ------------------------------------------------------------ input domains
Modes == {"rw", "ro", "none"}
Kinds == {"absent", "dir", "file"}

L_xa == <<"x", "-", "a", ".", "txt">>
L_ya == <<"y", "-", "a", ".", "TXT">>
L_b == <<"b", ".", "txt">>
E_json == <<"x", "-", "b", ".", "json">>
E_dir == <<"z", "-", "b", ".", "txt">>
LabelFileNames == {L_xa, L_ya, L_b}
LabelEntryNames == LabelFileNames \cup {E_json, E_dir}

I_a == <<"a", ".", "jpg">>
I_b == <<"b", ".", "jpg">>
ImageNames == {I_a, I_b}

ClassesName == <<"classes", ".", "txt">>

\* The content of the source file called n in directory d: every source file has
\* a content of its own.
ContentOf(d, n) == <<d, n>>

File(c, m) == [content |-> c, mode |-> m]
Entry(k, c, m) == [kind |-> k, content |-> c, mode |-> m]

EntryChoices(n) ==
    IF n = E_dir THEN {Entry("dir", <<>>, "rw")}
    ELSE IF n = E_json THEN {Entry("file", ContentOf("labels", n), "rw")}
    ELSE {Entry("file", ContentOf("labels", n), m) : m \in Modes}

AllEntries == UNION {EntryChoices(n) : n \in LabelEntryNames}

LabelDirContents ==
    UNION { {f \in [S -> AllEntries] : \A n \in S : f[n] \in EntryChoices(n)} :
            S \in {T \in SUBSET LabelEntryNames : Cardinality(T) <= MaxLabelEntries} }

ImageFiles == {File(ContentOf("images", n), m) : n \in ImageNames, m \in Modes}

ImageDirContents ==
    UNION { {f \in [S -> ImageFiles] : \A n \in S : f[n].content = ContentOf("images", n)} :
            S \in SUBSET ImageNames }

Empty == [n \in {} |-> 0]

\* ------------------------------------------------------------ pathlib, str
\* str.rfind('.'): the last index of the dot, 0 when there is none.
RFindDot(name) ==
    LET dots == {i \in 1..Len(name) : name[i] = "."}
    IN IF dots = {} THEN 0 ELSE CHOOSE i \in dots : \A j \in dots : j <= i

\* PurePath.suffix: from the last dot on, when the dot is neither first nor last.
Suffix(name) ==
    LET k == RFindDot(name)
    IN IF 1 < k /\ k < Len(name) THEN SubSeq(name, k, Len(name)) ELSE <<>>

\* PurePath.stem: the name without its suffix.
Stem(name) ==
    LET k == RFindDot(name)
    IN IF 1 < k /\ k < Len(name) THEN SubSeq(name, 1, k - 1) ELSE name

\* str.lower, token by token.
LowerTok(t) == IF t = "TXT" THEN "txt" ELSE t
Lower(s) == [i \in 1..Len(s) |-> LowerTok(s[i])]

\* str.split('-'): the pieces between the hyphens, empty pieces kept.
RECURSIVE Split(_)
Split(s) ==
    LET hy == {i \in 1..Len(s) : s[i] = "-"}
    IN IF hy = {} THEN <<s>>
       ELSE LET k == CHOOSE i \in hy : \A j \in hy : i <= j
            IN <<SubSeq(s, 1, k - 1)>> \o Split(SubSeq(s, k + 1, Len(s)))

\* '-'.join(parts)
RECURSIVE Join(_)
Join(parts) ==
    IF Len(parts) = 0 THEN <<>>
    ELSE IF Len(parts) = 1 THEN parts[1]
    ELSE parts[1] \o <<"-">> \o Join(Tail(parts))

\* ImageBaseName with the last piece taken instead of all the pieces after the first.
ImageBaseName_LastPart(stem) ==
    LET parts == Split(stem)
    IN IF Len(parts) > 1 THEN parts[Len(parts)] ELSE stem

\* lines 57-61: the base name of the image of a label with this stem.
ImageBaseName(stem) ==
    LET parts == Split(stem)
    IN IF Len(parts) > 1 THEN Join(Tail(parts)) ELSE stem

\* line 64: f"{image_base_name}.jpg"
ImageFilename(label_name) == ImageBaseName(Stem(label_name)) \o <<".", "jpg">>

\* ------------------------------------------------------------ state
VARIABLES
    images_dir,     \* source images directory: [kind, files: name -> file]
    labels_dir,     \* source labels directory: [kind, files: name -> entry]
    classes_file,   \* source class file: [kind, file]
    out,            \* output tree: [dirs, images, labels, classes]
    pc,             \* the program's position
    label_files,    \* the label files the loop has still to visit
    label_path,     \* the label file the loop is at
    image_filename, \* the image file name derived for it
    copied_count,   \* the counter of line 48
    exit_code,      \* the process's exit status, -1 while it runs
    warnings,       \* label name -> number of "Skipping label" warnings logged
    errors,         \* label name -> number of "Error processing" errors logged
    visits,         \* label name -> number of times the loop body ran for it
    written,        \* the label files whose copy to output/labels completed
    class_copy,     \* "none", "ok" or "raised": the copy of line 80
    run,            \* the number of the run
    out0,           \* the output tree when this run started
    prev,           \* the previous run's [count, exit]
    edited,         \* the source tree changed since this run started
    same_src        \* this run started on the source tree the previous run saw

vars == <<images_dir, labels_dir, classes_file, out, pc, label_files, label_path,
          image_filename, copied_count, exit_code, warnings, errors, visits,
          written, class_copy, run, out0, prev, edited, same_src>>

src == <<images_dir, labels_dir, classes_file>>
locals == <<label_files, label_path, image_filename, copied_count, warnings,
            errors, visits, written, class_copy>>
hist == <<run, out0, prev, edited, same_src>>

NoOutput == [dirs |-> FALSE, images |-> Empty, labels |-> Empty, classes |-> Empty]

ValidSources ==
    { <<[kind |-> "dir", files |-> i], [kind |-> "dir", files |-> l],
        [kind |-> "file", file |-> File(ContentOf("", ClassesName), m)]>> :
      i \in ImageDirContents, l \in LabelDirContents, m \in Modes }

\* One of the three paths is missing or of the wrong kind; what the others hold
\* does not matter to the program then.
InvalidSources ==
    { s \in { <<[kind |-> ik, files |-> IF ik = "dir" THEN (I_a :> File(ContentOf("images", I_a), "rw")) ELSE Empty],
                [kind |-> lk, files |-> IF lk = "dir" THEN (L_xa :> Entry("file", ContentOf("labels", L_xa), "rw")) ELSE Empty],
                [kind |-> ck, file |-> File(ContentOf("", ClassesName), "rw")]>> :
              ik \in Kinds, lk \in Kinds, ck \in Kinds } :
      ~(s[1].kind = "dir" /\ s[2].kind = "dir" /\ s[3].kind = "file") }

InitLocals ==
    /\ label_files = {}
    /\ label_path = <<>>
    /\ image_filename = <<>>
    /\ copied_count = 0
    /\ warnings = Empty
    /\ errors = Empty
    /\ visits = Empty
    /\ written = {}
    /\ class_copy = "none"

Init ==
    /\ \E s \in ValidSources \cup InvalidSources :
          /\ images_dir = s[1]
          /\ labels_dir = s[2]
          /\ classes_file = s[3]
    /\ out = NoOutput
    /\ pc = "main"
    /\ exit_code = -1
    /\ InitLocals
    /\ run = 1
    /\ out0 = NoOutput
    /\ prev = [count |-> 0, exit |-> -1]
    /\ edited = FALSE
    /\ same_src = FALSE

\* ------------------------------------------------------------ filesystem calls
\* Path.is_dir, Path.is_file on a source path.
IsDir(p) == p.kind = "dir"
IsFile(p) == p.kind = "file"

\* (source_images_dir / image_filename).is_file(): the images directory holds
\* regular files only.
ImageIsFile(name) == name \in DOMAIN images_dir.files

\* SourcesValid without the check of the class file.
SourcesValid_NoClassCheck == IsDir(images_dir) /\ IsDir(labels_dir)

\* line 33: the three source paths are what the program needs.
SourcesValid == IsDir(images_dir) /\ IsDir(labels_dir) /\ IsFile(classes_file)

\* line 46: the regular files of the labels directory whose suffix, lowered, is .txt
ListLabelFiles ==
    {f \in DOMAIN labels_dir.files :
        labels_dir.files[f].kind = "file" /\ Lower(Suffix(f)) = <<".", "txt">>}

\* shutil.copy2(src, dst) raises: the source cannot be read, or the destination
\* exists and cannot be written.
CopyRaises(srcFile, dstDir, dstName) ==
    \/ srcFile.mode = "none"
    \/ dstName \in DOMAIN dstDir /\ dstDir[dstName].mode # "rw"

\* shutil.copy2(src, dst) when it does not raise: the destination holds the
\* source's content and permission bits.
Copy2(srcFile, dstDir, dstName) ==
    [n \in DOMAIN dstDir \cup {dstName} |->
        IF n = dstName THEN File(srcFile.content, srcFile.mode) ELSE dstDir[n]]

Bump(f, n) == [f EXCEPT ![n] = @ + 1]

\* ------------------------------------------------------------ the program
\* lines 105-106 and 33-37: the call, and the validation of the source paths;
\* sys.exit(1) raises SystemExit, which no handler of the program catches.
Validate ==
    /\ pc = "main"
    /\ IF SourcesValid
       THEN /\ pc' = "mkdir"
            /\ exit_code' = exit_code
       ELSE /\ pc' = "done"
            /\ exit_code' = 1
    /\ UNCHANGED <<src, out, locals, hist>>

\* lines 40-41
MakeOutputDirs ==
    /\ pc = "mkdir"
    /\ out' = [out EXCEPT !.dirs = TRUE]
    /\ pc' = "list"
    /\ UNCHANGED <<src, exit_code, locals, hist>>

\* lines 46-48
ListLabels ==
    /\ pc = "list"
    /\ label_files' = ListLabelFiles
    /\ copied_count' = 0
    /\ visits' = [l \in ListLabelFiles |-> 0]
    /\ warnings' = [l \in ListLabelFiles |-> 0]
    /\ errors' = [l \in ListLabelFiles |-> 0]
    /\ pc' = "loop"
    /\ UNCHANGED <<src, out, exit_code, label_path, image_filename, written,
                   class_copy, hist>>

\* NextLabel with the is_file test guarding the image copy only: a label whose
\* image is missing is warned about and still copied.
NextLabel_CopiesUnmatched(l) ==
    /\ pc = "loop"
    /\ l \in label_files
    /\ label_files' = label_files \ {l}
    /\ label_path' = l
    /\ image_filename' = ImageFilename(l)
    /\ visits' = Bump(visits, l)
    /\ IF ImageIsFile(ImageFilename(l))
       THEN /\ pc' = "copy_image"
            /\ warnings' = warnings
       ELSE /\ pc' = "copy_label"
            /\ warnings' = Bump(warnings, l)
    /\ UNCHANGED <<src, out, exit_code, copied_count, errors, written,
                   class_copy, hist>>

\* lines 51-67 and 74-75: the next label file, in whatever order iterdir gave;
\* the image name derived from it; the warning when the image is no file.
NextLabel(l) ==
    /\ pc = "loop"
    /\ l \in label_files
    /\ label_files' = label_files \ {l}
    /\ label_path' = l
    /\ image_filename' = ImageFilename(l)
    /\ visits' = Bump(visits, l)
    /\ IF ImageIsFile(ImageFilename(l))
       THEN /\ pc' = "copy_image"
            /\ warnings' = warnings
       ELSE /\ pc' = "loop"
            /\ warnings' = Bump(warnings, l)
    /\ UNCHANGED <<src, out, exit_code, copied_count, errors, written,
                   class_copy, hist>>

\* CopyImage with the try of line 55 around the loop instead of inside it: an
\* exception ends the loop.
CopyImage_StopsLoop ==
    /\ pc = "copy_image"
    /\ LET f == images_dir.files[image_filename]
       IN IF CopyRaises(f, out.images, image_filename)
          THEN /\ errors' = Bump(errors, label_path)
               /\ out' = out
               /\ label_files' = {}
               /\ pc' = "loop"
          ELSE /\ out' = [out EXCEPT !.images = Copy2(f, @, image_filename)]
               /\ errors' = errors
               /\ label_files' = label_files
               /\ pc' = "copy_label"
    /\ UNCHANGED <<src, exit_code, label_path, image_filename,
                   copied_count, warnings, visits, written, class_copy, hist>>

\* CopyImage with an exception of the image copy logged and the label copied
\* all the same.
CopyImage_SwallowsRaise ==
    /\ pc = "copy_image"
    /\ LET f == images_dir.files[image_filename]
       IN IF CopyRaises(f, out.images, image_filename)
          THEN /\ errors' = Bump(errors, label_path)
               /\ out' = out
          ELSE /\ out' = [out EXCEPT !.images = Copy2(f, @, image_filename)]
               /\ errors' = errors
    /\ pc' = "copy_label"
    /\ UNCHANGED <<src, exit_code, label_files, label_path, image_filename,
                   copied_count, warnings, visits, written, class_copy, hist>>

\* line 69, and lines 76-77 when it raises
CopyImage ==
    /\ pc = "copy_image"
    /\ LET f == images_dir.files[image_filename]
       IN IF CopyRaises(f, out.images, image_filename)
          THEN /\ errors' = Bump(errors, label_path)
               /\ out' = out
               /\ pc' = "loop"
          ELSE /\ out' = [out EXCEPT !.images = Copy2(f, @, image_filename)]
               /\ errors' = errors
               /\ pc' = "copy_label"
    /\ UNCHANGED <<src, exit_code, label_files, label_path, image_filename,
                   copied_count, warnings, visits, written, class_copy, hist>>

\* CopyLabel with the label written under output/images.
CopyLabel_WrongDir ==
    /\ pc = "copy_label"
    /\ LET f == labels_dir.files[label_path]
       IN IF CopyRaises(f, out.images, label_path)
          THEN /\ errors' = Bump(errors, label_path)
               /\ UNCHANGED <<out, copied_count, written>>
          ELSE /\ out' = [out EXCEPT !.images = Copy2(f, @, label_path)]
               /\ copied_count' = copied_count + 1
               /\ written' = written \cup {label_path}
               /\ errors' = errors
    /\ pc' = "loop"
    /\ UNCHANGED <<src, exit_code, label_files, label_path, image_filename,
                   warnings, visits, class_copy, hist>>

\* CopyLabel without the handler of lines 76-77: an exception leaves the function.
CopyLabel_Propagates ==
    /\ pc = "copy_label"
    /\ LET f == labels_dir.files[label_path]
       IN IF CopyRaises(f, out.labels, label_path)
          THEN /\ pc' = "except"
               /\ UNCHANGED <<out, copied_count, written>>
          ELSE /\ out' = [out EXCEPT !.labels = Copy2(f, @, label_path)]
               /\ copied_count' = copied_count + 1
               /\ written' = written \cup {label_path}
               /\ pc' = "loop"
    /\ UNCHANGED <<src, exit_code, label_files, label_path, image_filename,
                   warnings, errors, visits, class_copy, hist>>

\* CopyLabel with the counter incremented whether or not the copy raised.
CopyLabel_CountsOnRaise ==
    /\ pc = "copy_label"
    /\ LET f == labels_dir.files[label_path]
       IN IF CopyRaises(f, out.labels, label_path)
          THEN /\ errors' = Bump(errors, label_path)
               /\ UNCHANGED <<out, written>>
          ELSE /\ out' = [out EXCEPT !.labels = Copy2(f, @, label_path)]
               /\ written' = written \cup {label_path}
               /\ errors' = errors
    /\ copied_count' = copied_count + 1
    /\ pc' = "loop"
    /\ UNCHANGED <<src, exit_code, label_files, label_path, image_filename,
                   warnings, visits, class_copy, hist>>

\* lines 72-73, and lines 76-77 when the copy raises
CopyLabel ==
    /\ pc = "copy_label"
    /\ LET f == labels_dir.files[label_path]
       IN IF CopyRaises(f, out.labels, label_path)
          THEN /\ errors' = Bump(errors, label_path)
               /\ UNCHANGED <<out, copied_count, written>>
          ELSE /\ out' = [out EXCEPT !.labels = Copy2(f, @, label_path)]
               /\ copied_count' = copied_count + 1
               /\ written' = written \cup {label_path}
               /\ errors' = errors
    /\ pc' = "loop"
    /\ UNCHANGED <<src, exit_code, label_files, label_path, image_filename,
                   warnings, visits, class_copy, hist>>

\* line 51: the list is exhausted
LoopEnd ==
    /\ pc = "loop"
    /\ label_files = {}
    /\ pc' = "copy_classes"
    /\ UNCHANGED <<src, out, exit_code, locals, hist>>

\* lines 80-83: the copy of the class file; an exception leaves the function
CopyClasses ==
    /\ pc = "copy_classes"
    /\ IF CopyRaises(classes_file.file, out.classes, ClassesName)
       THEN /\ class_copy' = "raised"
            /\ out' = out
            /\ pc' = "except"
       ELSE /\ out' = [out EXCEPT !.classes = Copy2(classes_file.file, @, ClassesName)]
            /\ class_copy' = "ok"
            /\ pc' = "returned"
    /\ UNCHANGED <<src, exit_code, label_files, label_path, image_filename,
                   copied_count, warnings, errors, visits, written, hist>>

\* line 112: the function returned; the process ends with status 0
MainSuccess ==
    /\ pc = "returned"
    /\ exit_code' = 0
    /\ pc' = "done"
    /\ UNCHANGED <<src, out, locals, hist>>

\* MainExcept without the sys.exit(1) of line 115.
MainExcept_NoExit ==
    /\ pc = "except"
    /\ exit_code' = 0
    /\ pc' = "done"
    /\ UNCHANGED <<src, out, locals, hist>>

\* lines 113-115
MainExcept ==
    /\ pc = "except"
    /\ exit_code' = 1
    /\ pc' = "done"
    /\ UNCHANGED <<src, out, locals, hist>>

\* ------------------------------------------------------------ the environment
\* Between two runs, an image file is removed from the source images directory.
RemoveSourceImage(i) ==
    /\ pc = "done"
    /\ run < MaxRuns
    /\ images_dir.kind = "dir"
    /\ i \in DOMAIN images_dir.files
    /\ images_dir' = [images_dir EXCEPT
          !.files = [n \in DOMAIN images_dir.files \ {i} |-> images_dir.files[n]]]
    /\ edited' = TRUE
    /\ UNCHANGED <<labels_dir, classes_file, out, pc, exit_code, locals, run,
                   out0, prev, same_src>>

\* The program is run again, with the same arguments.
Rerun ==
    /\ pc = "done"
    /\ run < MaxRuns
    /\ run' = run + 1
    /\ out0' = out
    /\ prev' = [count |-> copied_count, exit |-> exit_code]
    /\ same_src' = ~edited
    /\ edited' = FALSE
    /\ pc' = "main"
    /\ exit_code' = -1
    /\ label_files' = {}
    /\ label_path' = <<>>
    /\ image_filename' = <<>>
    /\ copied_count' = 0
    /\ warnings' = Empty
    /\ errors' = Empty
    /\ visits' = Empty
    /\ written' = {}
    /\ class_copy' = "none"
    /\ UNCHANGED <<src, out>>

Step ==
    \/ Validate
    \/ MakeOutputDirs
    \/ ListLabels
    \/ \E l \in LabelFileNames : NextLabel(l)
    \/ CopyImage
    \/ CopyLabel
    \/ LoopEnd
    \/ CopyClasses
    \/ MainSuccess
    \/ MainExcept

Next ==
    \/ Step
    \/ \E i \in ImageNames : RemoveSourceImage(i)
    \/ Rerun

Spec == Init /\ [][Next]_vars

\* The program is sequential and every call of it returns or raises: a run
\* that can take a step takes it.
FairSpec == Spec /\ WF_vars(Step)

\* ------------------------------------------------------------ name derivation
\* The label names of the derivation specification: every stem of 1..MaxStemLen
\* tokens over a letter, another letter, the hyphen and the dot, with ".txt".
StemTokens == {"a", "b", "-", "."}
DeriveNames ==
    {stem \o <<".", "txt">> : stem \in UNION {[1..n -> StemTokens] : n \in 1..MaxStemLen}}

DeriveInit ==
    /\ label_path \in DeriveNames
    /\ pc = "derive"
    /\ images_dir = [kind |-> "dir", files |-> Empty]
    /\ labels_dir = [kind |-> "dir", files |-> Empty]
    /\ classes_file = [kind |-> "file", file |-> File(ContentOf("", ClassesName), "rw")]
    /\ out = NoOutput
    /\ exit_code = -1
    /\ label_files = {}
    /\ image_filename = <<>>
    /\ copied_count = 0
    /\ warnings = Empty
    /\ errors = Empty
    /\ visits = Empty
    /\ written = {}
    /\ class_copy = "none"
    /\ run = 1
    /\ out0 = NoOutput
    /\ prev = [count |-> 0, exit |-> -1]
    /\ edited = FALSE
    /\ same_src = FALSE

\* lines 57-64 applied to one label name
Derive ==
    /\ pc = "derive"
    /\ image_filename' = ImageFilename(label_path)
    /\ pc' = "derived"
    /\ UNCHANGED <<src, out, exit_code, label_files, label_path, copied_count,
                   warnings, errors, visits, written, class_copy, hist>>

DeriveNext == Derive

SpecDerive == DeriveInit /\ [][DeriveNext]_vars

\* ------------------------------------------------------------ properties
\* One of the three source paths is not what line 33 asks for.
SourceMissing ==
    \/ images_dir.kind # "dir"
    \/ labels_dir.kind # "dir"
    \/ classes_file.kind # "file"

\* The loop of lines 51-77 is over, and the source tree is the one it ran on.
LoopOver ==
    \/ pc \in {"copy_classes", "returned", "except"}
    \/ pc = "done" /\ ~SourceMissing /\ ~edited

\* filter_annotated_data has returned, and the source tree is the one it ran on.
Returned ==
    \/ pc = "returned"
    \/ pc = "done" /\ exit_code = 0 /\ ~edited

\* The '.txt' label files of the source labels directory, as the claims name them.
TxtLabels ==
    {l \in LabelFileNames : l \in DOMAIN labels_dir.files /\ labels_dir.files[l].kind = "file"}

HasImage(l) == ImageFilename(l) \in DOMAIN images_dir.files

ImageInOutput(l) ==
    LET i == ImageFilename(l)
    IN /\ i \in DOMAIN out.images
       /\ out.images[i].content = images_dir.files[i].content

LabelInOutput(l) ==
    /\ l \in DOMAIN out.labels
    /\ out.labels[l].content = labels_dir.files[l].content

PairInOutput(l) == ImageInOutput(l) /\ LabelInOutput(l)

\* C1 as the spec states it: after filter_annotated_data returns, every label file
\* whose derived image exists in the source images directory is in the output tree
\* together with its image, both with the content of their sources.
C1_AllMatchedCopied ==
    Returned => \A l \in TxtLabels : HasImage(l) => PairInOutput(l)

\* C1, amended: after filter_annotated_data returns, every label file whose derived
\* image exists in the source images directory and for which no copy raised is in
\* the output tree together with its image, both with the content of their sources.
C1_MatchedCopiedUnlessRaised ==
    Returned => \A l \in TxtLabels : (HasImage(l) /\ errors[l] = 0) => PairInOutput(l)

C1_Witness ==
    /\ Returned
    /\ L_xa \in TxtLabels /\ HasImage(L_xa) /\ errors[L_xa] = 0
    /\ PairInOutput(L_xa)
    /\ \E l \in TxtLabels : HasImage(l) /\ errors[l] = 1

\* C2 as the spec states it: after filter_annotated_data returns, for every label
\* file whose derived image does not exist in the source images directory, neither
\* the label nor the derived image is in the output tree, and exactly one warning
\* was logged for the label, whatever the output directory held before the run.
C2_UnmatchedAbsent ==
    Returned => \A l \in TxtLabels : ~HasImage(l) =>
        /\ l \notin DOMAIN out.labels
        /\ ImageFilename(l) \notin DOMAIN out.images
        /\ warnings[l] = 1

\* C2, amended: after filter_annotated_data returns, for every label file whose
\* derived image does not exist in the source images directory, the run wrote
\* neither the label nor the derived image (each is in the output tree only if it
\* was there, the same, before the run), and exactly one warning was logged for
\* the label.
C2_UnmatchedNotWritten ==
    Returned => \A l \in TxtLabels : ~HasImage(l) =>
        /\ l \in DOMAIN out.labels =>
              l \in DOMAIN out0.labels /\ out.labels[l] = out0.labels[l]
        /\ ImageFilename(l) \in DOMAIN out.images =>
              /\ ImageFilename(l) \in DOMAIN out0.images
              /\ out.images[ImageFilename(l)] = out0.images[ImageFilename(l)]
        /\ l \notin written
        /\ warnings[l] = 1

C2_Witness ==
    /\ Returned
    /\ run = 2
    /\ L_xa \in TxtLabels /\ ~HasImage(L_xa) /\ warnings[L_xa] = 1
    /\ L_xa \in DOMAIN out.labels
    /\ L_b \in TxtLabels /\ ~HasImage(L_b) /\ L_b \notin DOMAIN out.labels

C3_EventuallyAttempted == (pc = "mkdir") ~> (class_copy # "none")

C4_MissingSourceNoWrite ==
    SourceMissing =>
        /\ out = out0
        /\ run = 1 => out = NoOutput
        /\ pc \in {"main", "done"}
        /\ pc = "done" => exit_code = 1

C4_Witness ==
    /\ pc = "done"
    /\ classes_file.kind = "absent" /\ images_dir.kind = "dir" /\ labels_dir.kind = "dir"
    /\ exit_code = 1
    /\ out = NoOutput

\* The files of an output tree and their contents.
Contents(dir) == [n \in DOMAIN dir |-> dir[n].content]
Tree(o) == [dirs |-> o.dirs, images |-> Contents(o.images),
            labels |-> Contents(o.labels), classes |-> Contents(o.classes)]

\* The second of two runs on an unchanged, valid source tree has ended.
SecondRunDone == pc = "done" /\ run >= 2 /\ same_src /\ ~edited /\ ~SourceMissing

\* C5: after the second of two runs on an unchanged source tree, the first of
\* which succeeded, the output tree is the one the first run left, and the second
\* run succeeds and reports the count the first run reported.
C5_Idempotent ==
    (SecondRunDone /\ prev.exit = 0) =>
        /\ Tree(out) = Tree(out0)
        /\ exit_code = 0
        /\ copied_count = prev.count

\* The part of C5 the program keeps: the output tree after the second run is the
\* one the first run left.
C5_SameTree == SecondRunDone => Tree(out) = Tree(out0)

\* The copy of line 80 raises in this run: the class file cannot be read, or the
\* output tree held, when the run started, a class file that cannot be written.
ClassCopyFails ==
    \/ classes_file.file.mode = "none"
    \/ ClassesName \in DOMAIN out0.classes /\ out0.classes[ClassesName].mode # "rw"

\* C6: the exit status is 1 when a source path is missing or the copy of the class
\* file raises, and 0 otherwise, whatever labels were skipped or raised in the loop.
C6_ExitCode ==
    /\ pc # "done" => exit_code = -1
    /\ pc = "done" =>
          exit_code = (IF SourceMissing \/ ClassCopyFails THEN 1 ELSE 0)

C6_Witness ==
    /\ pc = "done"
    /\ exit_code = 0
    /\ \E l \in DOMAIN errors : errors[l] = 1
    /\ \E l \in DOMAIN warnings : warnings[l] = 1

\* The stem without its text up to and including the first hyphen; the stem
\* itself when it holds no hyphen.
AfterFirstHyphen(stem) ==
    IF \A i \in 1..Len(stem) : stem[i] # "-"
    THEN stem
    ELSE LET k == CHOOSE i \in 1..Len(stem) :
                     stem[i] = "-" /\ \A j \in 1..(i - 1) : stem[j] # "-"
         IN [i \in 1..(Len(stem) - k) |-> stem[k + i]]

C8_FailureDoesNotStopLoop ==
    LoopOver =>
        /\ \A l \in TxtLabels : visits[l] = 1
        /\ \A f \in TxtLabels :
              (errors[f] >= 1 /\ \A g \in TxtLabels \ {f} : errors[g] = 0) =>
                  \A l \in TxtLabels \ {f} : HasImage(l) => PairInOutput(l)

\* The label file L_b raised first, and the loop went on to copy L_xa.
C8_Witness ==
    /\ pc = "loop" /\ label_files = {}
    /\ TxtLabels = {L_xa, L_b}
    /\ errors[L_b] = 1 /\ errors[L_xa] = 0
    /\ DOMAIN out.labels = {L_xa}
    /\ label_path = L_xa

\* The image-label pairs of the label files the loop body has run for once
\* without a warning and without an error.
CopiedPairs ==
    {<<ImageFilename(l), l>> : l \in {m \in DOMAIN visits :
        visits[m] = 1 /\ warnings[m] = 0 /\ errors[m] = 0}}

\* C9: the counter is the number of label files written to output/labels in this
\* run, which is the number of image-label pairs whose two copies completed, also
\* when several labels derive the same image; on a fresh output directory it is
\* the number of files in output/labels.
C9_CountIsPairsCopied ==
    /\ copied_count = Cardinality(written)
    /\ pc \notin {"copy_image", "copy_label"} => copied_count = Cardinality(CopiedPairs)
    /\ run = 1 => copied_count = Cardinality(DOMAIN out.labels)

C9_Witness ==
    /\ pc = "returned"
    /\ copied_count = 2
    /\ DOMAIN out.images = {I_a}
    /\ DOMAIN out.labels = {L_xa, L_ya}

\* Every label file of the output tree has its derived image there.
LabelsHaveImages ==
    \A l \in DOMAIN out.labels : ImageFilename(l) \in DOMAIN out.images

\* C10 as stated: during and after a run that starts on an empty output directory,
\* every label of the output tree has its image there and every image of the
\* output tree has a label there that derives it.
C10_PairConsistent ==
    run = 1 =>
        /\ LabelsHaveImages
        /\ \A i \in DOMAIN out.images : \E l \in DOMAIN out.labels : ImageFilename(l) = i

\* C10, amended: during and after a run that starts on an empty output directory,
\* every label of the output tree has its image there; an image of the output
\* tree has a label there that derives it, or it is the image of the pair whose
\* label is being copied, or the copy of a label that derives it raised.
C10_LabelsHaveImages ==
    run = 1 =>
        /\ LabelsHaveImages
        /\ \A i \in DOMAIN out.images :
              \/ \E l \in DOMAIN out.labels : ImageFilename(l) = i
              \/ pc = "copy_label" /\ i = image_filename
              \/ \E l \in DOMAIN errors : errors[l] >= 1 /\ ImageFilename(l) = i

\* An image is left in the output tree without a label: the copy of its label raised.
C10_Witness ==
    /\ run = 1
    /\ pc = "done"
    /\ DOMAIN out.images = {I_a, I_b}
    /\ DOMAIN out.labels = {L_b}
    /\ errors[L_xa] = 1

====
